---- MODULE Spec2Model ----
(***************************************************************************)
(* Model of the wheel-of-fortune server (src/server.js): the in-memory     *)
(* registry `wheels`, the request callback of http.createServer, the API   *)
(* routes of handleApi and the body-end callbacks of the two POST routes.  *)
(*                                                                         *)
(* JavaScript values are records tagged by the field t.  Text is a         *)
(* sequence of one-character strings so that trim() is computed.  Numbers  *)
(* are integers in -MaxFinite..MaxFinite plus Infinity and NaN; a sum      *)
(* above MaxFinite is Infinity, as a sum above Number.MAX_VALUE is.        *)
(***************************************************************************)
EXTENDS Integers, Sequences, FiniteSets, TLC

VARIABLES
    wheels,            \* the registry: own keys of the object `wheels`
    pending,           \* requests whose 'end' callback has not run yet
    nreq,              \* number of requests the server has received
    last,              \* the most recent callback: its input and its response
    crashed,           \* the process died of an uncaught exception
    spun,              \* per wheel id, the number of spins answered 200
    submitted          \* per wheel id, the options array of its create

vars == <<wheels, pending, nreq, last, crashed, spun, submitted>>

(***************************************************************************)
(* Bounds                                                                  *)
(***************************************************************************)
MaxReq == 3
DrawDen == 4
MaxFinite == 8

MaxAttempts == 5

(***************************************************************************)
(* Numbers                                                                 *)
(***************************************************************************)
Infinity == MaxFinite + 1
NaN == 0 - (DrawDen * (MaxFinite + 2))
Huge == MaxFinite

IsFinite(x) == x \in (0 - MaxFinite)..MaxFinite

NumAdd(a, b) ==
    IF a = NaN \/ b = NaN THEN NaN
    ELSE IF a + b > MaxFinite THEN Infinity
    ELSE a + b

\* Math.random() is k / DrawDen for k in 0..DrawDen-1; the product with the
\* total weight is kept in units of 1 / DrawDen.
Scale(k, total) ==
    IF total = NaN THEN NaN
    ELSE IF total = Infinity THEN (IF k = 0 THEN NaN ELSE Infinity * DrawDen)
    ELSE k * total

\* r < cumulative, r in units of 1 / DrawDen; false when either side is NaN
RLess(r, cumulative) ==
    /\ r # NaN
    /\ cumulative # NaN
    /\ r < cumulative * DrawDen

(***************************************************************************)
(* Text                                                                    *)
(***************************************************************************)
RECURSIVE TrimStart(_)
TrimStart(s) ==
    IF s = <<>> THEN s
    ELSE IF Head(s) = " " THEN TrimStart(Tail(s))
    ELSE s

RECURSIVE TrimEnd(_)
TrimEnd(s) ==
    IF s = <<>> THEN s
    ELSE IF s[Len(s)] = " " THEN TrimEnd(SubSeq(s, 1, Len(s) - 1))
    ELSE s

Trim(s) == TrimEnd(TrimStart(s))

Digits == <<"0", "1", "2", "3", "4", "5", "6", "7", "8", "9">>

DigitVal(c) == (CHOOSE i \in 1..10 : Digits[i] = c) - 1

RECURSIVE DecimalVal(_)
DecimalVal(s) ==
    IF s = <<>> THEN 0
    ELSE 10 * DecimalVal(SubSeq(s, 1, Len(s) - 1)) + DigitVal(s[Len(s)])

\* Number(text): surrounding blanks are ignored, the empty text is 0, a run
\* of decimal digits is its value, anything else is NaN
StringToNumber(s) ==
    LET body == Trim(s) IN
    IF body = <<>> THEN 0
    ELSE IF \A i \in 1..Len(body) : \E d \in 1..10 : Digits[d] = body[i]
         THEN (IF DecimalVal(body) > MaxFinite THEN Infinity ELSE DecimalVal(body))
    ELSE NaN

(***************************************************************************)
(* JavaScript values                                                       *)
(***************************************************************************)
Undefined == [t |-> "undefined"]
JNull == [t |-> "null"]
BadJson == [t |-> "badjson"]
JStr(s) == [t |-> "string", v |-> s]
JNum(n) == [t |-> "number", v |-> n]
JArr(s) == [t |-> "array", v |-> s]
ProtoMember == [t |-> "inherited"]

\* names every object inherits from Object.prototype and the route
\* pattern [a-zA-Z0-9_-]+ accepts
Inherited == {"constructor", "toString", "valueOf", "hasOwnProperty", "__proto__"}

Falsy(x) ==
    \/ x.t \in {"undefined", "null"}
    \/ x.t = "number" /\ x.v \in {0, NaN}
    \/ x.t = "string" /\ x.v = <<>>

\* x.f for a value x that is neither null nor undefined
Prop(x, f) == IF f \in DOMAIN x /\ f # "t" THEN x[f] ELSE Undefined

\* x.f throws a TypeError
PropThrows(x) == x.t \in {"undefined", "null"}

\* Number(x)
ToNumber(x) ==
    IF x.t = "number" THEN x.v
    ELSE IF x.t = "string" THEN StringToNumber(x.v)
    ELSE IF x.t = "null" THEN 0
    ELSE NaN

\* the text taken as it was sent, without trim()
RawText(x) == IF x.t = "string" THEN x.v ELSE <<>>

\* typeof x === 'string' ? x.trim() : ''
TrimmedText(x) == IF x.t = "string" THEN Trim(x.v) ELSE <<>>

(***************************************************************************)
(* The registry                                                            *)
(***************************************************************************)
\* wheels[id]: an own key, else a member inherited from Object.prototype,
\* else undefined
Lookup(id) ==
    IF id \in DOMAIN wheels THEN wheels[id]
    ELSE IF id \in Inherited THEN ProtoMember
    ELSE Undefined

IsWheel(x) == "results" \in DOMAIN x

Truthy(x) == IF IsWheel(x) THEN TRUE ELSE x.t = "inherited"

(***************************************************************************)
(* Routes                                                                  *)
(***************************************************************************)
CreatePath == <<"api", "wheels">>

\* pathname.match(/^\/api\/wheel\/([a-zA-Z0-9_-]+)/): a prefix match, so the
\* longer paths of the results and spin routes match it too
WheelDefMatch(path) ==
    /\ Len(path) >= 3
    /\ path[1] = "api" /\ path[2] = "wheel"
    /\ path[3] # ""

ResultsMatch(path) ==
    /\ WheelDefMatch(path)
    /\ Len(path) >= 4
    /\ path[4] = "results"

SpinMatch(path) ==
    /\ WheelDefMatch(path)
    /\ Len(path) >= 4
    /\ path[4] = "spin"

(***************************************************************************)
(* Create: validation of the submitted options and id allocation           *)
(***************************************************************************)
\* the validation test without its weight <= 0 part
OptionRejectedLoose(label, weight) ==
    label = <<>> \/ ~IsFinite(weight)

\* !label || !Number.isFinite(weight) || weight <= 0
OptionRejected(label, weight) ==
    label = <<>> \/ ~IsFinite(weight) \/ weight <= 0

\* the loop over payload.options: the sanitised options, or the first entry
\* that is rejected, or the first entry whose property read throws
RECURSIVE Sanitise(_, _)
Sanitise(rest, options) ==
    IF rest = <<>> THEN [kind |-> "ok", options |-> options]
    ELSE LET opt == Head(rest) IN
         IF PropThrows(opt) THEN [kind |-> "throw", options |-> options]
         ELSE LET label == TrimmedText(Prop(opt, "label"))
                  weight == ToNumber(Prop(opt, "weight"))
              IN IF OptionRejected(label, weight)
                 THEN [kind |-> "invalid", options |-> options]
                 ELSE Sanitise(Tail(rest),
                               Append(options, [label |-> label, weight |-> weight]))

\* !payload || !Array.isArray(payload.options) || payload.options.length === 0
OptionsMissing(payload) ==
    \/ Falsy(payload)
    \/ Prop(payload, "options").t # "array"
    \/ Prop(payload, "options").v = <<>>

\* values generateId can return: up to 8 characters of 0-9a-z, none at all
\* when Math.random() returns 0
GeneratedIds == {"", "a", "b"}

\* the collision test left out
IdTakenNever(id) == FALSE

\* wheels[id] is truthy
IdTaken(id) == Truthy(Lookup(id))

\* the loop stopped after its first call of generateId
AllocLoopOnce(gen, i) == gen[i]

\* for (i = 0; i < 5; i++) { id = generateId(); if (!wheels[id]) break; }
\* gen[i] is the value of the i-th call of generateId
RECURSIVE AllocLoop(_, _)
AllocLoop(gen, i) ==
    IF ~IdTaken(gen[i]) \/ i = MaxAttempts THEN gen[i]
    ELSE AllocLoop(gen, i + 1)

NewWheel(id, options) == [id |-> id, options |-> options, results |-> <<>>]

\* the registry replaced by one that holds the new wheel alone
StoreAlone(registry, id, wheel) == (id :> wheel)

\* wheels[id] = wheel: the assignment replaces whatever the key held
Store(registry, id, wheel) == (id :> wheel) @@ registry

\* the result sequence replaced by the new entry instead of extended
PushOverwrites(results, result) == <<result>>

\* wheel.results.push(result)
Push(results, result) == Append(results, result)

(***************************************************************************)
(* Spin: the weighted choice                                               *)
(***************************************************************************)
\* wheel.options.reduce((sum, opt) => sum + opt.weight, 0)
RECURSIVE TotalWeight(_)
TotalWeight(options) ==
    IF options = <<>> THEN 0
    ELSE NumAdd(TotalWeight(SubSeq(options, 1, Len(options) - 1)),
                options[Len(options)].weight)

\* the test written r <= cumulative
HitAtBoundary(r, cumulative) ==
    r # NaN /\ cumulative # NaN /\ r <= cumulative * DrawDen

\* the test of the walk: r < cumulative
Hit(r, cumulative) == RLess(r, cumulative)

\* the index `chosen` starts at when no option matches
DefaultChoice(options) == 1

\* the walk from option i on, `cumulative` being the sum before option i
RECURSIVE Walk(_, _, _, _)
Walk(options, i, cumulative, r) ==
    IF i > Len(options) THEN DefaultChoice(options)
    ELSE LET next == NumAdd(cumulative, options[i].weight) IN
         IF Hit(r, next) THEN i
         ELSE Walk(options, i + 1, next, r)

\* index of the option a spin chooses when Math.random() is k / DrawDen
Choose(options, k) == Walk(options, 1, 0, Scale(k, TotalWeight(options)))

(***************************************************************************)
(* Responses                                                               *)
(***************************************************************************)
NoBody == [none |-> TRUE]
ErrorBody(msg) == [error |-> msg]

\* what handleApi did: the response it sent (status 0: none), the value it
\* returned, and the route whose 'end' callback it registered
Outcome(status, body, ret, route, id) ==
    [status |-> status, body |-> body, ret |-> ret, route |-> route, id |-> id]

\* JSON.stringify leaves out the members whose value is undefined: an
\* object inherited from Object.prototype has no id, options or results
EmptyObject == [json |-> "{}"]

\* sendJson(res, 200, { id: wheel.id, options: wheel.options })
DescribeBody(wheel) ==
    IF IsWheel(wheel) THEN [id |-> wheel.id, options |-> wheel.options]
    ELSE EmptyObject

\* sendJson(res, 200, { id: wheel.id, results }) with results a copy of
\* wheel.results
ResultsBody(wheel) == [id |-> wheel.id, results |-> wheel.results]

\* the routes of handleApi in the order the code tests them; sendJson
\* returns undefined, and so does a handler that returns its value
HandleApi(method, path) ==
    IF method = "POST" /\ path = CreatePath
    THEN Outcome(0, NoBody, "true", "create", "")
    ELSE IF method = "GET" /\ WheelDefMatch(path)
    THEN LET wheel == Lookup(path[3]) IN
         IF ~Truthy(wheel)
         THEN Outcome(404, ErrorBody("Wheel not found"), "undefined", "describe", path[3])
         ELSE Outcome(200, DescribeBody(wheel), "undefined", "describe", path[3])
    ELSE IF method = "GET" /\ ResultsMatch(path)
    THEN LET wheel == Lookup(path[3]) IN
         IF ~Truthy(wheel)
         THEN Outcome(404, ErrorBody("Wheel not found"), "undefined", "results", path[3])
         ELSE Outcome(200, ResultsBody(wheel), "undefined", "results", path[3])
    ELSE IF method = "POST" /\ SpinMatch(path)
    THEN LET wheel == Lookup(path[3]) IN
         IF ~Truthy(wheel)
         THEN Outcome(404, ErrorBody("Wheel not found"), "undefined", "spin", path[3])
         ELSE Outcome(0, NoBody, "true", "spin", path[3])
    ELSE Outcome(0, NoBody, "false", "none", "")

\* tryServeStatic: only GET and HEAD, only an existing file; writeHead
\* throws inside its try block when a response was already sent
TryServeStatic(method, exists, sent) ==
    method \in {"GET", "HEAD"} /\ exists /\ ~sent

\* the most recent callback: which one ran ("request" or "end"), the route
\* and wheel id it was for, the response it wrote (status 0: none), the
\* value handleApi returned and whether the server callback was rejected
Event(ev, route, id, status, body, ret, rejected) ==
    [ev |-> ev, route |-> route, id |-> id, status |-> status, body |-> body,
     ret |-> ret, rejected |-> rejected]

(***************************************************************************)
(* Inputs                                                                  *)
(***************************************************************************)
PathIds == GeneratedIds \cup {"constructor"}

DescribePath(id) == <<"api", "wheel", id>>
ResultsPath(id) == <<"api", "wheel", id, "results">>
SpinPath(id) == <<"api", "wheel", id, "spin">>

\* method and path of the requests: the four API routes for every id, and
\* requests no API route takes
Requests ==
    {<<"POST", CreatePath>>, <<"GET", <<"index.html">>>>, <<"POST", <<"index.html">>>>}
    \cup {<<"GET", DescribePath(i)>> : i \in PathIds}
    \cup {<<"GET", ResultsPath(i)>> : i \in PathIds}
    \cup {<<"POST", SpinPath(i)>> : i \in PathIds}

Opt(label, weight) == [t |-> "object", label |-> label, weight |-> weight]

Options(entries) == [t |-> "object", options |-> JArr(entries)]

ValidOptionInputs ==
    { <<Opt(JStr(<<" ", "a", " ">>), JStr(<<"1">>)),
        Opt(JStr(<<"b", " ", "c">>), JNum(2)),
        Opt(JStr(<<"b">>), JNum(1))>>,
      <<Opt(JStr(<<"a">>), JNum(Huge)), Opt(JStr(<<"b">>), JNum(Huge))>> }

InvalidOptionInputs ==
    { <<>>,
      <<Opt(JStr(<<"a">>), JNum(1)), Opt(JStr(<<" ">>), JNum(1))>>,
      <<Opt(JStr(<<"a">>), JNum(1)), Opt(JStr(<<"b">>), JNum(0))>>,
      <<Opt(JStr(<<"a">>), JNum(Infinity))>>,
      <<Opt(JStr(<<"a">>), Undefined)>>,
      <<Opt(JNum(1), JNum(1))>> }

CreateInputs ==
    {Options(e) : e \in ValidOptionInputs \cup InvalidOptionInputs}
    \cup { BadJson, JNull, JNum(5), [t |-> "object", options |-> Undefined],
           Options(<<Opt(JStr(<<"a">>), JNum(1)), JNull, Opt(JStr(<<" ">>), JNum(1))>>),
           Options(<<Opt(JStr(<<>>), JNum(1)), JNull>>) }

\* the values generateId returns to one create, gen[i] being what its i-th
\* call returns or would return: none when validation fails before the
\* loop, else every call but the last returns a taken id (here the same one
\* each time) and the last a free one unless it is call number MaxAttempts;
\* after MaxAttempts taken ids, the free id one more call would return
GenInputs(payload) ==
    IF payload # BadJson /\ ~OptionsMissing(payload)
       /\ Sanitise(payload.options.v, <<>>).kind = "ok"
    THEN LET taken == {i \in GeneratedIds : IdTaken(i)}
             free == GeneratedIds \ taken
         IN UNION { {Append([i \in 1..(m - 1) |-> t], x) :
                        t \in IF m = 1 THEN {""} ELSE taken,
                        x \in IF m = MaxAttempts THEN GeneratedIds ELSE free}
                    : m \in 1..MaxAttempts }
            \cup {Append([i \in 1..MaxAttempts |-> t], x) : t \in taken, x \in free}
    ELSE {<<>>}

Entrant(name, phone) == [t |-> "object", name |-> name, phone |-> phone]

SpinInputs ==
    { Entrant(JStr(<<" ", "n", " ">>), JStr(<<"5", " ">>)),
      Entrant(JStr(<<" ">>), JStr(<<"5">>)),
      Entrant(JStr(<<"n">>), JStr(<<>>)),
      Entrant(JStr(<<"n">>), Undefined),
      Entrant(JNum(7), JStr(<<"5">>)),
      BadJson, JNull, JNum(5) }

Draws == 0..(DrawDen - 1)

\* whether the requested file exists under ./public; tryServeStatic reads
\* the file system only for a GET or HEAD that no API route answered
FileInputs(method, path) ==
    IF HandleApi(method, path).ret = "false" /\ method \in {"GET", "HEAD"}
    THEN BOOLEAN ELSE {FALSE}

\* whether the runtime ends the process on an unhandled rejection; it
\* matters only to a request whose callback is rejected
RuntimeInputs(method, path) ==
    IF HandleApi(method, path).ret = "undefined" THEN BOOLEAN ELSE {FALSE}

\* the values of Math.random() a spin may draw: it is called only by a spin
\* whose name and phone passed validation
DrawInputs(payload) ==
    IF /\ payload # BadJson
       /\ ~PropThrows(payload)
       /\ TrimmedText(Prop(payload, "name")) # <<>>
       /\ TrimmedText(Prop(payload, "phone")) # <<>>
    THEN Draws ELSE {0}

\* values of Date.now()
Times == {1}

(***************************************************************************)
(* State machine                                                           *)
(***************************************************************************)
EmptyMap == [i \in {} |-> 0]

Without(f, k) == [i \in DOMAIN f \ {k} |-> f[i]]

Init ==
    /\ wheels = EmptyMap
    /\ pending = EmptyMap
    /\ nreq = 0
    /\ last = Event("init", "none", "", 0, NoBody, "none", FALSE)
    /\ crashed = FALSE
    /\ spun = EmptyMap
    /\ submitted = EmptyMap

\* the request callback with a read that empties the result list of the
\* wheel it describes (wheel.results.length = 0)
RequestClearsResults(method, path, exists, strict) ==
    /\ ~crashed
    /\ nreq < MaxReq
    /\ LET api == HandleApi(method, path) IN
       /\ nreq' = nreq + 1
       /\ pending' = IF api.ret = "true"
                     THEN pending @@ ((nreq + 1) :> [route |-> api.route, id |-> api.id])
                     ELSE pending
       /\ last' = Event("request", api.route, api.id, api.status, api.body, api.ret, FALSE)
       /\ wheels' = IF api.route \in {"describe", "results"} /\ api.id \in DOMAIN wheels
                    THEN [wheels EXCEPT ![api.id].results = <<>>]
                    ELSE wheels
    /\ crashed' = FALSE
    /\ UNCHANGED <<spun, submitted>>

\* the callback of http.createServer for one request: handleApi, and when it
\* did not return true the static file or the 'Not found' response; writing
\* that response after one was sent throws, which rejects the promise of the
\* callback, and `strict` says whether the runtime ends the process for it
Request(method, path, exists, strict) ==
    /\ ~crashed
    /\ nreq < MaxReq
    /\ LET n == nreq + 1
           api == HandleApi(method, path)
           sent == api.status # 0
           apiHandled == api.ret = "true"
           served == ~apiHandled /\ TryServeStatic(method, exists, sent)
           rejected == ~apiHandled /\ ~served /\ sent
           status == IF sent THEN api.status
                     ELSE IF apiHandled THEN 0
                     ELSE IF served THEN 200 ELSE 404
           body == IF sent THEN api.body
                   ELSE IF apiHandled THEN NoBody
                   ELSE IF served THEN [file |-> path] ELSE [text |-> "Not found"]
       IN /\ nreq' = n
          /\ pending' = IF apiHandled
                        THEN pending @@ (n :> [route |-> api.route, id |-> api.id])
                        ELSE pending
          /\ last' = Event("request", api.route, api.id, status, body, api.ret, rejected)
          /\ crashed' = (rejected /\ strict)
    /\ UNCHANGED <<wheels, spun, submitted>>

\* what the 'end' callback of POST /api/wheels does with a parsed body and
\* the values gen of generateId
CreateResult(payload, gen) ==
    IF payload = BadJson
    THEN [kind |-> "respond", status |-> 400, body |-> ErrorBody("Invalid JSON")]
    ELSE IF OptionsMissing(payload)
    THEN [kind |-> "respond", status |-> 400,
          body |-> ErrorBody("options array is required")]
    ELSE LET checked == Sanitise(payload.options.v, <<>>)
             id == AllocLoop(gen, 1)
         IN IF checked.kind = "throw"
            THEN [kind |-> "throw", status |-> 0, body |-> NoBody]
            ELSE IF checked.kind = "invalid"
            THEN [kind |-> "respond", status |-> 400,
                  body |-> ErrorBody("Each option must contain a non-empty label and a positive numeric weight")]
            ELSE IF IdTaken(id)
            THEN [kind |-> "respond", status |-> 500,
                  body |-> ErrorBody("Could not allocate id")]
            ELSE [kind |-> "store", status |-> 201,
                  body |-> [id |-> id, link |-> <<"/wheel.html?id=", id>>,
                            resultsLink |-> <<"/results.html?id=", id>>],
                  wheel |-> NewWheel(id, checked.options)]

CreateEnd(n, payload, gen) ==
    /\ ~crashed
    /\ n \in DOMAIN pending
    /\ pending[n].route = "create"
    /\ LET res == CreateResult(payload, gen) IN
       /\ last' = Event("end", "create", "", res.status, res.body, "none", FALSE)
       /\ crashed' = (res.kind = "throw")
       /\ IF res.kind = "store"
          THEN /\ wheels' = Store(wheels, res.wheel.id, res.wheel)
               /\ spun' = spun @@ (res.wheel.id :> 0)
               /\ submitted' = (res.wheel.id :> payload.options.v) @@ submitted
          ELSE UNCHANGED <<wheels, spun, submitted>>
    /\ pending' = Without(pending, n)
    /\ UNCHANGED nreq

\* what the 'end' callback of POST /api/wheel/:id/spin does for the wheel
\* it captured, a parsed body, Math.random() = k / DrawDen and Date.now()
SpinResult(wheel, payload, k, now) ==
    IF payload = BadJson
    THEN [kind |-> "respond", status |-> 400, body |-> ErrorBody("Invalid JSON")]
    ELSE IF PropThrows(payload)
    THEN [kind |-> "throw", status |-> 0, body |-> NoBody]
    ELSE LET name == TrimmedText(Prop(payload, "name"))
             phone == TrimmedText(Prop(payload, "phone"))
         IN IF name = <<>> \/ phone = <<>>
            THEN [kind |-> "respond", status |-> 400,
                  body |-> ErrorBody("Name and phone are required")]
            ELSE IF ~IsWheel(wheel)
            THEN [kind |-> "throw", status |-> 0, body |-> NoBody]
            ELSE LET chosen == wheel.options[Choose(wheel.options, k)] IN
                 [kind |-> "push", status |-> 200,
                  body |-> [result |-> chosen.label],
                  result |-> [name |-> name, phone |-> phone,
                              result |-> chosen.label, timestamp |-> now]]

\* The callback holds the object `wheel` that the request looked up.  No
\* key of the registry is ever reassigned or deleted, so looking the id up
\* again yields that same object.
SpinEnd(n, payload, k, now) ==
    /\ ~crashed
    /\ n \in DOMAIN pending
    /\ pending[n].route = "spin"
    /\ LET id == pending[n].id
           res == SpinResult(Lookup(id), payload, k, now)
       IN /\ last' = Event("end", "spin", id, res.status, res.body, "none", FALSE)
          /\ crashed' = (res.kind = "throw")
          /\ IF res.kind = "push"
             THEN /\ wheels' = [wheels EXCEPT ![id].results = Push(@, res.result)]
                  /\ spun' = [spun EXCEPT ![id] = @ + 1]
             ELSE UNCHANGED <<wheels, spun>>
    /\ pending' = Without(pending, n)
    /\ UNCHANGED <<nreq, submitted>>

Next ==
    \/ \E req \in Requests :
          \E exists \in FileInputs(req[1], req[2]), strict \in RuntimeInputs(req[1], req[2]) :
             Request(req[1], req[2], exists, strict)
    \/ \E n \in DOMAIN pending, payload \in CreateInputs :
          \E gen \in GenInputs(payload) : CreateEnd(n, payload, gen)
    \/ \E n \in DOMAIN pending, payload \in SpinInputs :
          \E k \in DrawInputs(payload), now \in Times : SpinEnd(n, payload, k, now)

Spec == Init /\ [][Next]_vars

(***************************************************************************)
(* Properties                                                              *)
(***************************************************************************)
SpinEnded == last.ev = "end" /\ last.route = "spin"
CreateEnded == last.ev = "end" /\ last.route = "create"

\* C1: every wheel holds exactly as many results as spins on it were
\* answered with status 200, whatever the order in which the request and
\* body-end callbacks of the spins, creates and reads ran.
SpinsRecordedOnce ==
    \A id \in DOMAIN wheels : Len(wheels[id].results) = spun[id]

\* two spins on one wheel were answered 200 and no callback is outstanding
SpinsRecordedOnceWitness ==
    /\ SpinEnded /\ last.status = 200
    /\ spun[last.id] >= 2
    /\ pending = EmptyMap

\* C2: a create answered 201 stores its wheel under an id that was not a key
\* of the registry, adds that one key and leaves every wheel that was there
\* as it was; every wheel's id is its key.
CreateTakesFreshId ==
    [][ (last'.ev = "end" /\ last'.route = "create" /\ last'.status = 201)
        => /\ last'.body.id \notin DOMAIN wheels
           /\ DOMAIN wheels' = DOMAIN wheels \cup {last'.body.id}
           /\ \A id \in DOMAIN wheels : wheels'[id] = wheels[id]
           /\ \A id \in DOMAIN wheels' : wheels'[id].id = id ]_vars

\* a create succeeded while the registry already held a wheel with results
CreateTakesFreshIdWitness ==
    /\ CreateEnded /\ last.status = 201
    /\ \E id \in DOMAIN wheels : id # last.body.id /\ wheels[id].results # <<>>

\* the options a create submitted, labels trimmed and weights as numbers
SubmittedTrimmed(raw) ==
    [i \in 1..Len(raw) |->
        [label |-> Trim(raw[i].label.v), weight |-> ToNumber(raw[i].weight)]]

\* C3: a describe of an id that a successful create returned is answered
\* 200 with that id and the submitted options, labels trimmed, weights as
\* numbers, in the submitted order, however many creates and spins came
\* in between.
DescribeReturnsSubmitted ==
    [][ \A id \in DOMAIN wheels : \A exists \in BOOLEAN, strict \in BOOLEAN :
          Request("GET", DescribePath(id), exists, strict)
          => /\ last'.status = 200
             /\ last'.body = [id |-> id, options |-> SubmittedTrimmed(submitted[id])]
      ]_vars

\* the options of a create payload are missing or empty, or one entry has a
\* label that is empty after trimming or a weight that is not a finite
\* number above 0
EntryRefused(entry) ==
    /\ entry.t = "object"
    /\ \/ TrimmedText(Prop(entry, "label")) = <<>>
       \/ ~IsFinite(ToNumber(Prop(entry, "weight")))
       \/ ToNumber(Prop(entry, "weight")) <= 0

OptionsRefused(payload) ==
    /\ payload # BadJson
    /\ \/ payload.t # "object"
       \/ Prop(payload, "options").t # "array"
       \/ Prop(payload, "options").v = <<>>
       \/ \E i \in 1..Len(payload.options.v) : EntryRefused(payload.options.v[i])

\* C4: a create whose options are missing, empty or hold a refused entry is
\* answered 400 and leaves the registry as it was.
BadCreateRejected ==
    [][ \A n \in DOMAIN pending, payload \in CreateInputs :
          (OptionsRefused(payload) /\ \E gen \in GenInputs(payload) : CreateEnd(n, payload, gen))
          => (last'.status = 400 /\ wheels' = wheels) ]_vars

\* C5: describe, list-results and spin on an id that matches the route
\* pattern and that no create returned are answered 404 and change neither
\* the registry nor any result sequence.
UnknownIdNotFound ==
    [][ \A id \in PathIds \ DOMAIN wheels :
          \A exists \in BOOLEAN, strict \in BOOLEAN :
             (/\ id # ""
              /\ \/ Request("GET", DescribePath(id), exists, strict)
                 \/ Request("GET", ResultsPath(id), exists, strict)
                 \/ Request("POST", SpinPath(id), exists, strict))
             => (last'.status = 404 /\ wheels' = wheels) ]_vars

\* the name or the phone of a spin payload is missing, not text, or empty
\* after trimming
EntrantRefused(payload) ==
    /\ payload # BadJson
    /\ \/ payload.t # "object"
       \/ TrimmedText(Prop(payload, "name")) = <<>>
       \/ TrimmedText(Prop(payload, "phone")) = <<>>

\* C6: a spin on an existing wheel whose name or phone is missing, not text
\* or empty after trimming is answered 400 and leaves every result sequence
\* as it was.
BadSpinRejected ==
    [][ \A n \in DOMAIN pending, payload \in SpinInputs, k \in Draws, now \in Times :
          (/\ pending[n].id \in DOMAIN wheels
           /\ EntrantRefused(payload)
           /\ SpinEnd(n, payload, k, now))
          => (last'.status = 400 /\ wheels' = wheels) ]_vars

\* C7: a list-results request for an existing wheel is answered by the
\* list-results route, with status 200, the wheel's id and all its results
\* in the order they were appended.
ResultsListed ==
    [][ \A id \in DOMAIN wheels : \A exists \in BOOLEAN, strict \in BOOLEAN :
          (id # "" /\ Request("GET", ResultsPath(id), exists, strict))
          => /\ last'.route = "results"
             /\ last'.status = 200
             /\ last'.body = [id |-> id, results |-> wheels[id].results] ]_vars

\* sum of the weights of the first i options
Cumulative(options, i) == TotalWeight(SubSeq(options, 1, i))

\* the scaled draw r is a number with 0 <= r < totalWeight
BelowTotal(options, k) ==
    RLess(Scale(k, TotalWeight(options)), TotalWeight(options))

\* the first option in stored order whose cumulative weight exceeds r
FirstExceeding(options, k) ==
    LET r == Scale(k, TotalWeight(options))
    IN CHOOSE i \in 1..Len(options) :
          /\ RLess(r, Cumulative(options, i))
          /\ \A j \in 1..(i - 1) : ~RLess(r, Cumulative(options, j))

\* a spin answered 200 on the wheel of pending request n
SpinAnswered(n, payload, k, now) ==
    /\ last'.status = 200
    /\ last'.route = "spin"
    /\ SpinEnd(n, payload, k, now)

Recorded(n) == wheels'[pending[n].id].results[Len(wheels'[pending[n].id].results)]

\* C8: when the scaled draw r satisfies 0 <= r < totalWeight, the label a
\* spin returns and records is that of the first option in stored order
\* whose cumulative weight strictly exceeds r, so a draw equal to a
\* cumulative boundary selects the option that starts there.
SpinChoosesFirstExceeding ==
    [][ \A n \in DOMAIN pending, payload \in SpinInputs, k \in Draws, now \in Times :
          (SpinAnswered(n, payload, k, now) /\ BelowTotal(wheels[pending[n].id].options, k))
          => LET options == wheels[pending[n].id].options
                 label == options[FirstExceeding(options, k)].label
             IN last'.body.result = label /\ Recorded(n).result = label ]_vars

\* a spin chose the third of three options of weights 1, 2, 1: with
\* DrawDen = 4 only the draw 3/4 does, and its r = 3 is the boundary 1 + 2
SpinChoosesFirstExceedingWitness ==
    /\ SpinEnded /\ last.status = 200
    /\ Len(wheels[last.id].options) = 3
    /\ last.body.result = wheels[last.id].options[3].label
    /\ wheels[last.id].options[2].weight = 2

\* C9: a spin whose walk finds no option (r is not below the total weight)
\* selects the last option, and every spin selects one of the options.
FallbackIsLastOption ==
    [][ \A n \in DOMAIN pending, payload \in SpinInputs, k \in Draws, now \in Times :
          SpinAnswered(n, payload, k, now)
          => LET options == wheels[pending[n].id].options IN
             /\ \E i \in 1..Len(options) : last'.body.result = options[i].label
             /\ ~BelowTotal(options, k)
                => last'.body.result = options[Len(options)].label ]_vars

\* C10: a spin whose draw is 0 selects the first option and a spin whose
\* draw is the largest value below 1 selects the last option.
ExtremeDrawsSelectEnds ==
    [][ \A n \in DOMAIN pending, payload \in SpinInputs, k \in Draws, now \in Times :
          SpinAnswered(n, payload, k, now)
          => LET options == wheels[pending[n].id].options IN
             /\ k = 0 => last'.body.result = options[1].label
             /\ k = DrawDen - 1 => last'.body.result = options[Len(options)].label ]_vars

\* a create payload whose options are a non-empty array of objects, each
\* with a label that is not empty after trimming and a finite weight above 0
OptionsAccepted(payload) ==
    /\ payload # BadJson
    /\ payload.t = "object"
    /\ Prop(payload, "options").t = "array"
    /\ Prop(payload, "options").v # <<>>
    /\ \A i \in 1..Len(payload.options.v) :
          /\ payload.options.v[i].t = "object"
          /\ ~EntryRefused(payload.options.v[i])

\* the calls of generateId, among the first MaxAttempts, that return an id
\* which is not in the registry
FreeAttempts(gen) ==
    {i \in 1..MaxAttempts : i <= Len(gen) /\ gen[i] \notin DOMAIN wheels}

\* the create payloads of the inputs whose options are valid
AcceptedInputs == {p \in CreateInputs : OptionsAccepted(p)}

\* C11: a create with valid options ends after at most 5 generated ids: in
\* every reachable registry its callback answers 201 with the first of them
\* that is free, and answers 500 when all 5 are in the registry, whatever a
\* sixth attempt would have generated; a create that is answered 201 adds
\* the id it returns and any other create leaves the registry unchanged.
CreateAllocatesWithinAttempts ==
    /\ [](\A payload \in AcceptedInputs : \A gen \in GenInputs(payload) :
            LET res == CreateResult(payload, gen)
                free == FreeAttempts(gen)
            IN IF free # {}
               THEN LET first == CHOOSE i \in free : \A j \in free : i <= j IN
                    /\ res.kind = "store"
                    /\ res.status = 201
                    /\ res.body.id = gen[first]
                    /\ res.wheel.id = gen[first]
               ELSE /\ res.kind = "respond"
                    /\ res.status = 500)
    /\ [][ (last'.ev = "end" /\ last'.route = "create")
            => IF last'.status = 201
               THEN DOMAIN wheels' = DOMAIN wheels \cup {last'.body.id}
               ELSE wheels' = wheels ]_vars

\* a create with valid options was answered 500: all its attempts collided
CreateAllocatesWithinAttemptsWitness ==
    /\ CreateEnded /\ last.status = 500
    /\ wheels # EmptyMap

\* C12: a describe or list-results request, answered 200 or not, leaves the
\* registry as it was: the same ids, options and result sequences; the
\* registry changes only in a create answered 201 or a spin answered 200.
ReadsLeaveRegistry ==
    [][ /\ \A id \in PathIds : \A exists \in BOOLEAN, strict \in BOOLEAN :
             (\/ Request("GET", DescribePath(id), exists, strict)
              \/ Request("GET", ResultsPath(id), exists, strict))
             => wheels' = wheels
        /\ wheels' # wheels
           => /\ last'.ev = "end"
              /\ \/ last'.route = "create" /\ last'.status = 201
                 \/ last'.route = "spin" /\ last'.status = 200 ]_vars

\* a read of a wheel that holds a result was answered
ReadsLeaveRegistryWitness ==
    /\ last.ev = "request" /\ last.route = "describe" /\ last.status = 200
    /\ last.id \in DOMAIN wheels
    /\ wheels[last.id].results # <<>>

\* a stored wheel has an option, every option has a label that is trimmed
\* and not empty and a finite weight above 0, and its id is its key
WellFormed(id, wheel) ==
    /\ wheel.id = id
    /\ wheel.options # <<>>
    /\ \A i \in 1..Len(wheel.options) :
          /\ wheel.options[i].label # <<>>
          /\ Trim(wheel.options[i].label) = wheel.options[i].label
          /\ IsFinite(wheel.options[i].weight)
          /\ wheel.options[i].weight > 0

\* C13: in every reachable state every wheel of the registry has at least
\* one option, every option a non-empty trimmed label and a finite weight
\* above 0, and the wheel's id is its key; no step changes the options of a
\* wheel that is stored.  (The registry is empty initially.)
WheelsStayWellFormed ==
    [][ /\ \A id \in DOMAIN wheels' : WellFormed(id, wheels'[id])
        /\ \A id \in DOMAIN wheels \cap DOMAIN wheels' :
              wheels'[id].options = wheels[id].options ]_vars

\* a spin was answered on a wheel whose first option was submitted as the
\* label " a " and the weight "1"
WheelsStayWellFormedWitness ==
    /\ SpinEnded /\ last.status = 200
    /\ Len(submitted[last.id]) = 3
    /\ submitted[last.id][1].label.v = <<" ", "a", " ">>
    /\ wheels[last.id].options[1] = [label |-> <<"a">>, weight |-> 1]

\* the result sequence `before` is a prefix of the result sequence `after`
IsPrefix(before, after) ==
    /\ Len(before) <= Len(after)
    /\ SubSeq(after, 1, Len(before)) = before

\* the wheels that hold more results after the step than before it
Grown ==
    {id \in DOMAIN wheels' :
        Len(wheels'[id].results) >
            (IF id \in DOMAIN wheels THEN Len(wheels[id].results) ELSE 0)}

\* C14: no step removes a wheel from the registry, and every wheel's result
\* sequence before a step is a prefix of its result sequence after it; a
\* step adds at most one entry, to at most one wheel.  (Prefix order is
\* transitive, so this holds between any earlier and any later state.)
RegistryOnlyGrows ==
    [][ /\ DOMAIN wheels \subseteq DOMAIN wheels'
        /\ \A id \in DOMAIN wheels :
              /\ IsPrefix(wheels[id].results, wheels'[id].results)
              /\ Len(wheels'[id].results) <= Len(wheels[id].results) + 1
        /\ \A id \in DOMAIN wheels' \ DOMAIN wheels : wheels'[id].results = <<>>
        /\ Cardinality(Grown) <= 1 ]_vars

\* a wheel holds two results with different labels, in the order of the spins
RegistryOnlyGrowsWitness ==
    \E id \in DOMAIN wheels :
        /\ Len(wheels[id].results) = 2
        /\ wheels[id].results[1].result # wheels[id].results[2].result

\* C15: a spin answered 200 appends exactly one entry to the wheel it
\* targets and changes no other wheel; the entry carries the trimmed name
\* and phone of the request and the label of one of that wheel's options,
\* and the response returns the label that was recorded.
SpinAppendsOneEntry ==
    [][ \A n \in DOMAIN pending, payload \in SpinInputs, k \in Draws, now \in Times :
          SpinAnswered(n, payload, k, now)
          => LET id == pending[n].id
                 before == wheels[id].results
                 after == wheels'[id].results
                 entry == after[Len(after)]
             IN /\ DOMAIN wheels' = DOMAIN wheels
                /\ after = Append(before, entry)
                /\ wheels'[id].options = wheels[id].options
                /\ \A other \in DOMAIN wheels \ {id} : wheels'[other] = wheels[other]
                /\ entry.name = Trim(payload.name.v)
                /\ entry.phone = Trim(payload.phone.v)
                /\ \E i \in 1..Len(wheels[id].options) :
                      entry.result = wheels[id].options[i].label
                /\ last'.body.result = entry.result ]_vars

\* a spin sent with the name " n " was answered 200 while the registry held
\* a second wheel
SpinAppendsOneEntryWitness ==
    /\ SpinEnded /\ last.status = 200
    /\ Cardinality(DOMAIN wheels) >= 2
    /\ wheels[last.id].results[Len(wheels[last.id].results)].name = <<"n">>

\* C16: handleApi returns true when an API route answered the request or
\* registered the callback that will, and false otherwise; the server
\* callback never goes on to write the static-file or 'Not found' response
\* for a request an API route has answered.
HandleApiReturnsHandled ==
    last.ev = "request"
    => /\ last.ret = (IF last.route = "none" THEN "false" ELSE "true")
       /\ ~last.rejected

\* C17: a create or spin whose body parses as JSON ends with a response and
\* without an uncaught exception, whatever the shape of the parsed value; a
\* malformed one is answered 400 and changes no state.
ParsedBodyAlwaysAnswered ==
    [][ /\ \A n \in DOMAIN pending, payload \in CreateInputs \ {BadJson} :
              \A gen \in GenInputs(payload) :
                 CreateEnd(n, payload, gen)
                 => /\ last'.status # 0
                    /\ ~crashed'
                    /\ ~OptionsAccepted(payload)
                       => (last'.status = 400 /\ wheels' = wheels)
        /\ \A n \in DOMAIN pending, payload \in SpinInputs \ {BadJson} :
              \A k \in DrawInputs(payload), now \in Times :
                 SpinEnd(n, payload, k, now)
                 => /\ last'.status # 0
                    /\ ~crashed'
                    /\ EntrantRefused(payload)
                       => (last'.status = 400 /\ wheels' = wheels) ]_vars

====
